---------------------------- MODULE Spec2Model ----------------------------
(***************************************************************************)
(* Model of spyder/plugins/completion/languageserver/client.py (LSPClient). *)
(*                                                                         *)
(* One LSPClient session is modelled in full: its fields are the variables *)
(* below.  Every method of the class is an operator over a record `s` that  *)
(* holds the object's fields (so that a handler that calls send twice is    *)
(* one step), and every entry point (a call by the owning plugin, a Qt      *)
(* slot, an event of a supervised process) is one action.                   *)
(*                                                                         *)
(* Python values are encoded so that every comparison is well typed:        *)
(*   None as an id is 0 (NoId); ids carried by messages are 1..MaxSeq;      *)
(*   a dict is a record with a field `has` holding the keys it contains.    *)
(***************************************************************************)
EXTENDS Integers, Sequences, FiniteSets, TLC

(***************************************************************************)
(* Bounds of the model.                                                    *)
(***************************************************************************)
\* request ids explored: 1..MaxSeq
MaxSeq == 3
\* signal counters saturate at MaxEmit
MaxEmit == 2
\* inbound requests of the server (messages with a method and an id) explored
MaxServerIds == 1

(***************************************************************************)
(* Program constants.                                                      *)
(***************************************************************************)
\* send: timeout = 1 (second), in milliseconds
TimeoutMs == 1000
\* send: time.sleep(.1), in milliseconds
SleepMs == 100

PENDING == "pending"
SERVER_READY == "server_ready"

\* MessageKind (transport package)
REQUEST == "request"
RESPONSE == "response"
NOTIFICATION == "notification"

\* LSPRequestTypes used by this file
INITIALIZE == "initialize"
INITIALIZED == "initialized"
SHUTDOWN == "shutdown"
EXIT == "exit"
\* methods of the provider mix-in that the registries also hold
DOCUMENT_COMPLETION == "textDocument/completion"
DOCUMENT_DID_OPEN == "textDocument/didOpen"
WORKSPACE_CONFIGURATION == "workspace/configuration"
WORKSPACE_CONFIGURATION_CHANGE == "workspace/didChangeConfiguration"
\* methods no registry holds
UNREGISTERED == "custom/unregistered"
INTERNAL == "$/progress"

NoId == 0
NoMethod == "none"
Ids == 1..MaxSeq

Min(a, b) == IF a < b THEN a ELSE b

(***************************************************************************)
(* Python values of the payloads.                                          *)
(*   PyInt(k), PyNone, PyDict(change): the values textDocumentSync takes;   *)
(*   PyRef is a reference to the module-level TEXT_DOCUMENT_SYNC_OPTIONS.   *)
(***************************************************************************)
PyInt(k) == [t |-> "int", v |-> k]
PyNone == [t |-> "none", v |-> 0]
PyDict(change) == [t |-> "dict", v |-> change]
PyRef == [t |-> "ref", v |-> 0]
\* no value: the key is not there
PyAbsent == [t |-> "absent", v |-> 0]

\* a capability dict: the keys it has, and the value of textDocumentSync
Caps(keys, sync) == [has |-> keys, textDocumentSync |-> sync]
\* a params/result payload: null (None), or a dict with the keys in `has`
Payload(null, keys, caps) == [null |-> null, has |-> keys, capabilities |-> caps]

NoCaps == Caps({}, PyNone)
P_NULL == Payload(TRUE, {}, NoCaps)
P_EMPTY == Payload(FALSE, {}, NoCaps)
P_PID == Payload(FALSE, {"pid"}, NoCaps)
P_CAPS(sync) == Payload(FALSE, {"capabilities"}, Caps({"textDocumentSync", "hoverProvider"}, sync))
P_CAPS_NOSYNC == Payload(FALSE, {"capabilities"}, Caps({"hoverProvider"}, PyNone))

\* an inbound message: a dict with the keys in `has`
Msg(keys, id, method, payload, traceback) ==
    [has |-> keys, id |-> id, method |-> method, payload |-> payload,
     traceback |-> traceback]

ErrorMsg(id, traceback) == Msg({"id", "error"}, id, NoMethod, P_NULL, traceback)
ResultMsg(id, result) == Msg({"id", "result"}, id, NoMethod, result, FALSE)
RequestMsg(id, method, params) == Msg({"id", "method", "params"}, id, method, params, FALSE)
NotificationMsg(method, params) == Msg({"method", "params"}, NoId, method, params, FALSE)

VARIABLES
    \* ---- fields of LSPClient (__init__)
    notifier,               \* "none" | "enabled" | "disabled"
    transport,              \* "none" | "starting" | "running" | "notrunning"
    server,                 \* "none" | "starting" | "running" | "notrunning"
    stdio_pid,              \* 0 (None) or the pid the transport reported
    language,               \* language tag
    stdio,                  \* server_settings['stdio']
    initialized,
    ready_to_close,
    request_seq,
    req_status,             \* id -> method (NoMethod: no entry)
    req_reply,              \* keys of the callback table (NoId: the key None)
    server_unresponsive,
    transport_unresponsive,
    context,                \* "open" | "destroyed"
    \* ---- module-level objects shared by every LSPClient of the process
    SERVER_CAPABILITES,
    TEXT_DOCUMENT_SYNC_OPTIONS,
    \* ---- environment
    outq,                   \* would-block results the out socket still gives
    stdio_alive,            \* psutil's view of stdio_pid
    \* ---- observations
    last,                   \* what the last operation did
    hist                    \* what the session did so far

vars == <<notifier, transport, server, stdio_pid, language, stdio, initialized,
          ready_to_close, request_seq, req_status, req_reply,
          server_unresponsive, transport_unresponsive, context,
          SERVER_CAPABILITES, TEXT_DOCUMENT_SYNC_OPTIONS,
          outq, stdio_alive, last, hist>>

(***************************************************************************)
(* The object.  Self is the LSPClient together with the module-level        *)
(* objects it references, the environment it reads, and the log of the      *)
(* operation under way.                                                     *)
(***************************************************************************)
NoLog == [op |-> "init", ret |-> NoId, raised |-> FALSE, down |-> FALSE,
          wire |-> <<>>, sigs |-> <<>>, calls |-> <<>>, rets |-> <<>>,
          before_id |-> NoId, attempts |-> 0, elapsed |-> 0,
          merged |-> FALSE, overflow |-> FALSE, order |-> <<>>,
          branch |-> "none", resp_id |-> NoId, method |-> NoMethod,
          drop |-> "none", sync_in |-> PyAbsent, change_before |-> 0]

Self ==
    [notifier |-> notifier, transport |-> transport, server |-> server,
     stdio_pid |-> stdio_pid, language |-> language, stdio |-> stdio,
     initialized |-> initialized, ready_to_close |-> ready_to_close,
     request_seq |-> request_seq, req_status |-> req_status,
     req_reply |-> req_reply, server_unresponsive |-> server_unresponsive,
     transport_unresponsive |-> transport_unresponsive, context |-> context,
     SERVER_CAPABILITES |-> SERVER_CAPABILITES,
     TEXT_DOCUMENT_SYNC_OPTIONS |-> TEXT_DOCUMENT_SYNC_OPTIONS,
     outq |-> outq, stdio_alive |-> stdio_alive, hist |-> hist, log |-> NoLog]

\* the object at the start of operation `op`
Begin(op) == [Self EXCEPT !.log.op = op, !.log.before_id = hist.last_id]

\* the step that runs an operation to its result r
Commit(r) ==
    /\ notifier' = r.notifier
    /\ transport' = r.transport
    /\ server' = r.server
    /\ stdio_pid' = r.stdio_pid
    /\ language' = r.language
    /\ stdio' = r.stdio
    /\ initialized' = r.initialized
    /\ ready_to_close' = r.ready_to_close
    /\ request_seq' = r.request_seq
    /\ req_status' = r.req_status
    /\ req_reply' = r.req_reply
    /\ server_unresponsive' = r.server_unresponsive
    /\ transport_unresponsive' = r.transport_unresponsive
    /\ context' = r.context
    /\ SERVER_CAPABILITES' = r.SERVER_CAPABILITES
    /\ TEXT_DOCUMENT_SYNC_OPTIONS' = r.TEXT_DOCUMENT_SYNC_OPTIONS
    /\ outq' = r.outq
    /\ stdio_alive' = r.stdio_alive
    /\ hist' = r.hist
    /\ last' = r.log

(***************************************************************************)
(* Signals.  `cause` tells the emissions of sig_went_down apart: the        *)
(* process whose death is reported, or "send" for an abandoned send.        *)
(***************************************************************************)
Bump(n) == Min(n + 1, MaxEmit)

EmitWentDown(s, cause) ==
    [s EXCEPT !.log.sigs = Append(@, "sig_went_down"),
              !.hist.went_down[cause] = Bump(@)]

EmitServerError(s) == [s EXCEPT !.log.sigs = Append(@, "sig_server_error")]

EmitInitialize(s) ==
    [s EXCEPT !.log.sigs = Append(@, "sig_initialize"),
              !.hist.n_initialize = Bump(@)]

\* handle_process_errors: the slot of errorOccurred of process `proc`
handle_process_errors(s, proc) == EmitWentDown(s, proc)

(***************************************************************************)
(* Liveness.                                                               *)
(***************************************************************************)
is_transport_alive(s) ==
    IF s.transport = "starting" THEN TRUE ELSE s.transport # "notrunning"

is_server_alive(s) ==
    IF s.server = "starting" THEN TRUE ELSE s.server # "notrunning"

\* psutil.pid_exists and the zombie check, as the environment answers them
is_stdio_alive(s) == s.stdio_alive

is_down_transport(s) ==
    IF s.transport # "none" /\ ~is_transport_alive(s)
    THEN [(IF ~s.transport_unresponsive
           THEN EmitWentDown([s EXCEPT !.transport_unresponsive = TRUE], "transport")
           ELSE s) EXCEPT !.log.down = TRUE]
    ELSE s

is_down_server(s) ==
    IF s.server # "none" /\ ~is_server_alive(s)
    THEN [(IF ~s.server_unresponsive
           THEN EmitWentDown([s EXCEPT !.server_unresponsive = TRUE], "server")
           ELSE s) EXCEPT !.log.down = TRUE]
    ELSE s

is_down_stdio(s) ==
    IF s.stdio_pid # 0 /\ ~is_stdio_alive(s)
    THEN [(IF ~s.server_unresponsive
           THEN EmitWentDown([s EXCEPT !.server_unresponsive = TRUE], "stdio")
           ELSE s) EXCEPT !.log.down = TRUE]
    ELSE s

\* is_down: the object after the call; its return value is log.down
is_down(s) ==
    is_down_stdio(is_down_server(is_down_transport([s EXCEPT !.log.down = FALSE])))

(***************************************************************************)
(* send.                                                                   *)
(*                                                                         *)
(* outq is the state of zmq_out_socket as the peer leaves it: the number of *)
(* further send_pyobj(flags=NOBLOCK) calls that raise zmq.error.Again       *)
(* (FULL: every call does).  time.time() starts at 0 when send starts and   *)
(* advances by SleepMs at each time.sleep(.1).                              *)
(***************************************************************************)
FULL == -1
\* the longest finite run of would-block results the environment produces
MaxBlocks == 1

\* a wire message, as the transport receives it (id 0: the message has no
\* id); after_merge tells whether the operation that sent it had merged a
\* capability payload before
WireMsg(kind, method, id, merged) ==
    [kind |-> kind, method |-> method, id |-> id, after_merge |-> merged]

\* the message send builds (lines 372-388)
BuildMsg(s, method, kind) ==
    CASE kind = REQUEST -> WireMsg(REQUEST, method, s.request_seq, s.log.merged)
      [] kind = RESPONSE -> WireMsg(RESPONSE, NoMethod, s.request_seq, s.log.merged)
      [] kind = NOTIFICATION -> WireMsg(NOTIFICATION, method, NoId, s.log.merged)

\* self.req_status[self.request_seq] = method, for a request
RecordRequest(s, method, kind) ==
    IF kind = REQUEST
    THEN [s EXCEPT !.req_status[s.request_seq] = method,
                   !.hist.resolved = @ \ {s.request_seq}]
    ELSE s

\* the message went out: self.request_seq += 1; return int(_id)
SendSucceeded(s, msg, _id, now, n) ==
    [s EXCEPT !.request_seq = @ + 1,
              !.outq = 0,
              !.log.ret = _id,
              !.log.rets = Append(@, _id),
              !.log.wire = Append(@, msg),
              !.log.attempts = n,
              !.log.elapsed = now,
              !.hist.last_id = _id,
              !.hist.high = IF _id > @ THEN _id ELSE @,
              !.hist.sent = IF s.hist.audit /\ msg.kind = REQUEST /\ @[_id] = NoMethod
                            THEN [@ EXCEPT ![_id] = msg.method] ELSE @]

\* the budget is spent: self.sig_went_down.emit(self.language); return
SendAbandoned(s, now, n) ==
    [EmitWentDown(s, "send") EXCEPT !.log.ret = NoId,
                                    !.log.attempts = n,
                                    !.log.elapsed = now]

\* a faulty budget test that allows twice the budget; the retry property
\* C9 must reject it
BudgetSpentLate(now) == now > 0 + 2 * TimeoutMs

\* time.time() > timeout_time
BudgetSpent(now) == now > 0 + TimeoutMs

\* the while True loop of send: attempt number n is made at time now
RECURSIVE TrySend(_, _, _, _, _)
TrySend(s, msg, _id, now, n) ==
    IF s.outq = 0
    THEN SendSucceeded(s, msg, _id, now, n)
    ELSE LET s1 == [s EXCEPT !.outq = IF @ = FULL THEN FULL ELSE @ - 1]
         IN  IF BudgetSpent(now)
             THEN SendAbandoned(s1, now, n)
             ELSE TrySend(s1, msg, _id, now + SleepMs, n + 1)

\* the sends the model does not explore: those under an id above MaxSeq
Overflow(s, kind) == s.request_seq > MaxSeq

\* a faulty send that does not ask is_down; the down-state property C15 must
\* reject it
sendWhenDown(s, method, params, kind) ==
    IF "CANCEL" \in params
    THEN [s EXCEPT !.log.ret = NoId, !.log.drop = "cancel"]
    ELSE IF Overflow(s, kind)
    THEN [s EXCEPT !.log.overflow = TRUE]
    ELSE LET _id == s.request_seq
             msg == BuildMsg(s, method, kind)
             s1 == RecordRequest(s, method, kind)
         IN  IF s1.transport = "none" \/ s1.context = "destroyed"
             THEN [s1 EXCEPT !.log.raised = TRUE, !.log.ret = NoId]
             ELSE TrySend(s1, msg, _id, 0, 1)

\* a faulty send that looks for the cancel sentinel after it has recorded
\* the request; the cancel property C16 must reject it
sendCancelLate(s, method, params, kind) ==
    LET d == is_down(s) IN
    IF d.log.down
    THEN [d EXCEPT !.log.ret = NoId, !.log.drop = "down"]
    ELSE IF Overflow(d, kind)
    THEN [d EXCEPT !.log.overflow = TRUE]
    ELSE LET s1 == RecordRequest(d, method, kind) IN
         IF "CANCEL" \in params
         THEN [s1 EXCEPT !.log.ret = NoId, !.log.drop = "cancel"]
         ELSE IF s1.transport = "none" \/ s1.context = "destroyed"
         THEN [s1 EXCEPT !.log.raised = TRUE, !.log.ret = NoId]
         ELSE TrySend(s1, BuildMsg(d, method, kind), d.request_seq, 0, 1)

\* send(method, params, kind); params is the set of keys of the params dict.
\* log.overflow marks a send the model does not explore.
send(s, method, params, kind) ==
    LET d == is_down(s) IN
    IF d.log.down
    THEN [d EXCEPT !.log.ret = NoId, !.log.drop = "down"]
    ELSE IF "CANCEL" \in params
    THEN [d EXCEPT !.log.ret = NoId, !.log.drop = "cancel"]
    ELSE IF Overflow(d, kind)
    THEN [d EXCEPT !.log.overflow = TRUE]
    ELSE LET _id == d.request_seq
             msg == BuildMsg(d, method, kind)
             s1 == RecordRequest(d, method, kind)
         IN  IF s1.transport = "none" \/ s1.context = "destroyed"
             \* zmq_out_socket is None (never started) or closed: the call
             \* raises something other than zmq.error.Again
             THEN [s1 EXCEPT !.log.raised = TRUE, !.log.ret = NoId]
             ELSE TrySend(s1, msg, _id, 0, 1)

(***************************************************************************)
(* The registries class_register builds from the decorated methods, and    *)
(* the decorators of the senders.                                          *)
(***************************************************************************)
\* the methods of LSPClient under @handles
client_handlers ==
    (SERVER_READY :> "initialize") @@
    (SHUTDOWN :> "handle_shutdown") @@
    (INITIALIZE :> "process_server_capabilities")

\* handlers the provider mix-in registers
provider_handlers ==
    (DOCUMENT_COMPLETION :> "process_document_completion") @@
    (WORKSPACE_CONFIGURATION :> "send_workspace_configuration")

\* the methods of LSPClient under @send_request and @send_notification
client_senders ==
    (INITIALIZE :> "initialize") @@
    (SHUTDOWN :> "shutdown") @@
    (EXIT :> "exit") @@
    (INITIALIZED :> "initialized_call")

\* senders the provider mix-in registers
provider_senders ==
    (DOCUMENT_COMPLETION :> "document_completion_request") @@
    (DOCUMENT_DID_OPEN :> "document_did_open") @@
    (WORKSPACE_CONFIGURATION_CHANGE :> "send_plugin_configurations")

\* @class_register: the registries of the class
handler_registry == client_handlers @@ provider_handlers

sender_registry == client_senders @@ provider_senders

\* @send_request(method): send what the method returns as a request
send_request(s, method, params) == send(s, method, params, REQUEST)

\* @send_notification(method): send what the method returns as a notification
send_notification(s, method, params) == send(s, method, params, NOTIFICATION)

\* @send_response: answer the server's request under the current request_seq
send_response(s, method, params) == send(s, method, params, RESPONSE)

(***************************************************************************)
(* LSP initialization methods.                                             *)
(***************************************************************************)
\* a handler met a payload without the key it reads (KeyError, TypeError)
Raise(s) == [s EXCEPT !.log.raised = TRUE]

\* a callback or handler is invoked for request id (NoId: for no request);
\* `again` tells that the pending request of that id was resolved before
Called(s, fn, id) ==
    [s EXCEPT !.log.calls = Append(@, [fn |-> fn, id |-> id,
                                       again |-> id \in s.hist.resolved]),
              !.hist.resolved = IF id = NoId THEN @ ELSE @ \cup {id}]

\* initialize: the handler of SERVER_READY, a sender of INITIALIZE
initialize(s, params) ==
    IF params.null \/ "pid" \notin params.has
    THEN Raise(s)
    ELSE send_request([s EXCEPT !.stdio_pid = 1], INITIALIZE, {})

shutdown(s) == send_request(s, SHUTDOWN, {})

handle_shutdown(s) == [s EXCEPT !.ready_to_close = TRUE]

exit(s) == send_notification(s, EXIT, {})

initialized_call(s) == send_notification(s, INITIALIZED, {})

\* send_plugin_configurations (provider): a notification with the settings
send_plugin_configurations(s) ==
    send_notification(s, WORKSPACE_CONFIGURATION_CHANGE, {})

\* a faulty normalisation that installs the options object and forgets to
\* write the sync mode into it; the merge property C11 must reject it
NormalizeSyncStale(s, caps) ==
    LET sync == caps.textDocumentSync IN
    IF sync.t = "int"
    THEN [s |-> s, caps |-> [caps EXCEPT !.textDocumentSync = PyRef]]
    ELSE IF sync.t = "none"
    THEN [s |-> s, caps |-> [caps EXCEPT !.has = @ \ {"textDocumentSync"}]]
    ELSE [s |-> s, caps |-> caps]

\* lines 517-522: the payload's capability dict, normalised.  An int k makes
\* textDocumentSync the module's TEXT_DOCUMENT_SYNC_OPTIONS object, whose
\* change field is set to k; None removes the key.
NormalizeSync(s, caps) ==
    LET sync == caps.textDocumentSync IN
    IF sync.t = "int"
    THEN [s |-> [s EXCEPT !.TEXT_DOCUMENT_SYNC_OPTIONS.change = sync.v],
          caps |-> [caps EXCEPT !.textDocumentSync = PyRef]]
    ELSE IF sync.t = "none"
    THEN [s |-> s, caps |-> [caps EXCEPT !.has = @ \ {"textDocumentSync"}]]
    ELSE [s |-> s, caps |-> caps]

\* self.server_capabilites.update(server_capabilites): self.server_capabilites
\* is the module's SERVER_CAPABILITES object (line 131)
UpdateCapabilities(s, caps) ==
    [s EXCEPT !.SERVER_CAPABILITES.has = @ \cup caps.has,
              !.SERVER_CAPABILITES.textDocumentSync =
                  IF "textDocumentSync" \in caps.has THEN caps.textDocumentSync ELSE @,
              !.log.merged = TRUE]

\* a faulty handler that sends INITIALIZED before it merges the payload; the
\* ordering property C7 must reject it
MergeAndAnnounceEarly(s, payload) ==
    LET s1 == initialized_call([s EXCEPT !.initialized = TRUE]) IN
    IF payload.null \/ "capabilities" \notin payload.has
    THEN Raise(s1)
    ELSE IF "textDocumentSync" \notin payload.capabilities.has
    THEN Raise(s1)
    ELSE LET n == NormalizeSync(s1, payload.capabilities)
         IN  EmitInitialize(UpdateCapabilities(n.s, n.caps))

\* lines 515-527, after the configurations were sent
MergeAndAnnounce(s, payload) ==
    LET s1 == [s EXCEPT !.initialized = TRUE] IN
    IF payload.null \/ "capabilities" \notin payload.has
    THEN Raise(s1)
    ELSE IF "textDocumentSync" \notin payload.capabilities.has
    THEN Raise(s1)
    ELSE LET s1a == [s1 EXCEPT !.log.sync_in = payload.capabilities.textDocumentSync,
                               !.log.change_before = s1.TEXT_DOCUMENT_SYNC_OPTIONS.change]
             n == NormalizeSync(s1a, payload.capabilities)
             s2 == UpdateCapabilities(n.s, n.caps)
         IN  initialized_call(EmitInitialize(s2))

\* process_server_capabilities: the handler of INITIALIZE
process_server_capabilities(s, payload) ==
    LET s1 == send_plugin_configurations(s) IN
    IF s1.log.raised THEN s1 ELSE MergeAndAnnounce(s1, payload)

\* send_workspace_configuration (provider): answers the server's request
send_workspace_configuration(s) == send_response(s, WORKSPACE_CONFIGURATION, {})

\* process_document_completion (provider): hands the result to the editor
process_document_completion(s) == s

\* handler = getattr(self, handler_name); handler(payload, ...)
CallHandler(s, handler_name, payload, req_id) ==
    LET s1 == Called(s, handler_name, req_id) IN
    CASE handler_name = "initialize" -> initialize(s1, payload)
      [] handler_name = "handle_shutdown" -> handle_shutdown(s1)
      [] handler_name = "process_server_capabilities" -> process_server_capabilities(s1, payload)
      [] handler_name = "send_workspace_configuration" -> send_workspace_configuration(s1)
      [] handler_name = "process_document_completion" -> process_document_completion(s1)

(***************************************************************************)
(* on_msg_received.                                                        *)
(*                                                                         *)
(* An inbound message is a dict: `has` are its keys.  One readiness         *)
(* callback that finds one message queued is one call: the notifier is     *)
(* disabled, the message is processed, the next recv_pyobj raises          *)
(* zmq.ZMQError and the notifier is enabled again.  An exception other      *)
(* than RuntimeError and zmq.ZMQError leaves the slot at once.             *)
(***************************************************************************)
\* lines 427-443: a response that carries an error.  debug is
\* get_debug_level() > 0 or DEV.
OnError(s, resp, debug) ==
    IF s.language = "python"
    THEN LET s1 == IF debug /\ resp.traceback THEN EmitServerError(s) ELSE s IN
         IF "id" \notin resp.has
         THEN Raise(s1)
         ELSE IF resp.id \in s1.req_reply
         THEN Called(s1, "req_reply", resp.id)
         ELSE s1
    ELSE s

\* lines 444-452: a request or notification of the server
OnMethod(s, resp) ==
    IF resp.method = INTERNAL
    THEN s
    ELSE LET s1 == IF "id" \in resp.has
                   THEN [s EXCEPT !.request_seq = resp.id,
                                  !.hist.n_server_ids = @ + 1]
                   ELSE s IN
         IF resp.method \in DOMAIN handler_registry
         THEN IF "params" \notin resp.has
              THEN Raise(s1)
              ELSE CallHandler(s1, handler_registry[resp.method], resp.payload, NoId)
         ELSE s1

\* self.req_status.pop(req_id); self.req_reply.pop(req_id) if present
PopRequest(s, req_id) ==
    [s EXCEPT !.req_status[req_id] = NoMethod, !.req_reply = @ \ {req_id},
              !.hist.sent[req_id] = NoMethod]

\* lines 453-464: a response that carries a result
OnResult(s, resp) ==
    IF resp.payload.null
    THEN s
    ELSE IF "id" \notin resp.has
    THEN Raise(s)
    ELSE LET req_id == resp.id IN
         IF s.req_status[req_id] # NoMethod
         THEN LET req_type == s.req_status[req_id] IN
              IF req_type \in DOMAIN handler_registry
              THEN LET s1 == CallHandler(s, handler_registry[req_type], resp.payload, req_id) IN
                   IF s1.log.raised THEN s1 ELSE PopRequest(s1, req_id)
              ELSE s
         ELSE s

Branch(resp) ==
    IF "error" \in resp.has THEN "error"
    ELSE IF "method" \in resp.has THEN "method"
    ELSE IF "result" \in resp.has THEN "result"
    ELSE "none"

Dispatch(s, resp, debug) ==
    CASE Branch(resp) = "error" -> OnError(s, resp, debug)
      [] Branch(resp) = "method" -> OnMethod(s, resp)
      [] Branch(resp) = "result" -> OnResult(s, resp)
      [] OTHER -> s

\* the id of an inbound response (a message without a method), NoId if absent
ResponseId(resp) ==
    IF Branch(resp) \in {"error", "result"} /\ "id" \in resp.has THEN resp.id ELSE NoId

on_msg_received(s, resp, debug) ==
    LET s0 == [s EXCEPT !.notifier = "disabled", !.log.branch = Branch(resp),
                        !.log.resp_id = ResponseId(resp),
                        !.log.method = IF Branch(resp) = "method"
                                       THEN resp.method ELSE NoMethod]
        s1 == Dispatch(s0, resp, debug) IN
    IF s1.log.raised THEN s1 ELSE [s1 EXCEPT !.notifier = "enabled"]

(***************************************************************************)
(* perform_request.  params holds the keys of the caller's dict, the value *)
(* of requires_response, and whether the provider's sender answers with    *)
(* the CANCEL sentinel for it.                                             *)
(***************************************************************************)
Params(keys, requires_response, cancelled) ==
    [has |-> keys, requires_response |-> requires_response, cancelled |-> cancelled]

\* handler = getattr(self, handler_name); _id = handler(params)
CallSender(s, handler_name, params) ==
    LET out == IF params.cancelled THEN {"CANCEL"} ELSE {} IN
    CASE handler_name = "document_completion_request" ->
             send_request(s, DOCUMENT_COMPLETION, out)
      [] handler_name = "document_did_open" ->
             send_notification(s, DOCUMENT_DID_OPEN, out)

perform_request(s, method, params) ==
    IF method \in DOMAIN sender_registry
    THEN LET s1 == CallSender(s, sender_registry[method], params)
             _id == s1.log.ret
         IN  IF s1.log.raised
             THEN s1
             ELSE IF "response_callback" \in params.has /\ params.requires_response
             THEN [s1 EXCEPT !.req_reply = @ \cup {_id}]
             ELSE s1
    ELSE [s EXCEPT !.log.ret = NoId]

(***************************************************************************)
(* start and stop.                                                         *)
(***************************************************************************)
\* start_server: nothing to start for an external (here: stdio) server
start_server(s) ==
    IF s.stdio THEN s ELSE [s EXCEPT !.server = "starting"]

start_transport(s) == [s EXCEPT !.transport = "starting"]

start(s) == [start_transport(start_server(s)) EXCEPT !.notifier = "enabled"]

\* QProcess.kill(): the process is not running afterwards
Kill(state) == IF state = "none" THEN "none" ELSE "notrunning"

\* lines 294-297
StopNotifier(s) ==
    IF s.notifier # "none"
    THEN [s EXCEPT !.notifier = "none", !.log.order = Append(@, "notifier")]
    ELSE s

\* lines 298-299
KillTransport(s) ==
    IF s.transport # "none"
    THEN [s EXCEPT !.transport = Kill(@), !.log.order = Append(@, "transport")]
    ELSE s

\* a faulty context teardown that fails on a context that is already
\* destroyed; the repeated-stop property C14 must reject it
DestroyContextOnce(s) ==
    IF s.context = "destroyed"
    THEN Raise(s)
    ELSE [s EXCEPT !.context = "destroyed", !.log.order = Append(@, "context")]

\* line 300
DestroyContext(s) ==
    [s EXCEPT !.context = "destroyed", !.log.order = Append(@, "context")]

\* lines 301-302
KillServer(s) ==
    IF s.server # "none"
    THEN [s EXCEPT !.server = Kill(@), !.log.order = Append(@, "server")]
    ELSE s

\* a faulty stop that kills the server before it destroys the context; the
\* order property C13 must reject it
stopServerFirst(s) == DestroyContext(KillServer(KillTransport(StopNotifier(s))))

stop(s) == KillServer(DestroyContext(KillTransport(StopNotifier(s))))

(***************************************************************************)
(* A second LSPClient of the same process.  Its __init__ binds              *)
(* self.server_capabilites to the same module-level SERVER_CAPABILITES, so  *)
(* its handler works on the objects this session reads; its own fields are  *)
(* those of a started client and are not kept.                              *)
(***************************************************************************)
PeerSelf ==
    [start(Begin("peer.process_server_capabilities")) EXCEPT
        !.request_seq = 1, !.outq = 0, !.context = "open",
        !.transport = "running", !.server = "none", !.stdio_pid = 0]

(***************************************************************************)
(* The state after __init__.                                               *)
(***************************************************************************)
Languages == {"python", "r"}
Causes == {"transport", "server", "stdio", "send"}

InitHist ==
    [last_id |-> NoId, high |-> NoId, resolved |-> {}, n_initialize |-> 0,
     audit |-> FALSE, sent |-> [i \in Ids |-> NoMethod],
     n_server_ids |-> 0,
     went_down |-> [c \in Causes |-> 0]]

InitFields ==
    /\ notifier = "none"
    /\ transport = "none"
    /\ server = "none"
    /\ stdio_pid = 0
    /\ language \in Languages
    /\ stdio \in BOOLEAN
    /\ initialized = FALSE
    /\ ready_to_close = FALSE
    /\ request_seq = 1
    /\ req_status = [i \in Ids |-> NoMethod]
    /\ req_reply = {}
    /\ server_unresponsive = FALSE
    /\ transport_unresponsive = FALSE
    /\ context = "open"
    /\ SERVER_CAPABILITES = Caps({"textDocumentSync", "hoverProvider"}, PyRef)
    /\ TEXT_DOCUMENT_SYNC_OPTIONS = [change |-> 0]
    /\ outq = 0
    /\ stdio_alive = TRUE
    /\ last = NoLog

Init == InitFields /\ hist = InitHist

\* the same session, with the method each pending id was first transmitted
\* under kept in hist.sent
InitAudit == InitFields /\ hist = [InitHist EXCEPT !.audit = TRUE]

\* a session for a local tcp server, of either language
InitTcp == Init /\ ~stdio

\* a python session, for a local tcp server or a stdio server
InitPython == Init /\ language = "python"

\* a python session for a local tcp server
InitPythonTcp == Init /\ language = "python" /\ ~stdio

\* the same session, with the transmitted requests kept in hist.sent
InitAuditPythonTcp == InitAudit /\ language = "python" /\ ~stdio

(***************************************************************************)
(* Inputs.                                                                 *)
(***************************************************************************)
SyncValues == {PyInt(1), PyInt(2), PyNone}
CapsPayloads == {P_CAPS(v) : v \in SyncValues} \cup {P_CAPS_NOSYNC}

RequestParams ==
    {Params({}, FALSE, FALSE),
     Params({"response_callback", "requires_response"}, TRUE, FALSE),
     Params({"response_callback", "requires_response"}, FALSE, FALSE),
     Params({"response_callback", "requires_response"}, TRUE, TRUE)}

PerformMethods == {DOCUMENT_COMPLETION, DOCUMENT_DID_OPEN, UNREGISTERED}

(***************************************************************************)
(* Actions: the entry points of the client.                                *)
(***************************************************************************)
\* an operation runs to its result, within what the model explores
Run(r) ==
    /\ ~r.log.overflow
    /\ r.hist.n_server_ids <= MaxServerIds
    /\ Commit(r)

Started == transport # "none"

Start ==
    /\ ~Started
    /\ context = "open"
    /\ Run(start(Begin("start")))

Stop == Run(stop(Begin("stop")))

\* the plugin's timer asks is_down
PollIsDown ==
    /\ Started
    /\ Run(is_down(Begin("is_down")))

\* the plugin calls perform_request
Perform(methods, paramsets) ==
    /\ Started
    /\ \E method \in methods, params \in paramsets :
          Run(perform_request(Begin("perform_request"), method, params))

PerformRequest == Perform(PerformMethods, RequestParams)

\* a completion request whose answer the editor waits for
PerformCompletion ==
    Perform({DOCUMENT_COMPLETION},
            {Params({"response_callback", "requires_response"}, TRUE, FALSE)})

Shutdown ==
    /\ Started
    /\ Run(shutdown(Begin("shutdown")))

Exit ==
    /\ Started
    /\ Run(exit(Begin("exit")))

\* the notifier's activated signal, with one message of msgs queued
Receive(msgs) ==
    /\ notifier = "enabled"
    /\ \E resp \in msgs, debug \in BOOLEAN :
          Run(on_msg_received(Begin("on_msg_received"), resp, debug))

\* a supervised QProcess dies and reports it (errorOccurred)
ProcessError ==
    \E proc \in {"transport", "server"} :
        /\ Self[proc] \in {"starting", "running"}
        /\ Run(handle_process_errors(
                 [Begin("handle_process_errors") EXCEPT ![proc] = "notrunning"], proc))

\* a supervised QProcess starts running, or exits without an error
ProcessChanges ==
    \E proc \in {"transport", "server"}, state \in {"running", "notrunning"} :
        /\ Self[proc] \in {"starting", "running"}
        /\ Self[proc] # state
        /\ Run([Begin("process") EXCEPT ![proc] = state])

\* the stdio server behind the transport dies
StdioDies ==
    /\ stdio_pid # 0
    /\ stdio_alive
    /\ Run([Begin("stdio") EXCEPT !.stdio_alive = FALSE])

\* the peer of zmq_out_socket stops reading, or catches up
Channel(blocks) ==
    /\ Started
    /\ context = "open"
    /\ \E k \in blocks :
          /\ k # outq
          /\ Run([Begin("channel") EXCEPT !.outq = k])

ChannelChanges == Channel((0..MaxBlocks) \cup {FULL})

ChannelFillsOrDrains == Channel({0, FULL})

\* another LSPClient of the process handles its initialize response
PeerProcessServerCapabilities ==
    \E payload \in CapsPayloads :
        LET r == process_server_capabilities(PeerSelf, payload) IN
        /\ SERVER_CAPABILITES' = r.SERVER_CAPABILITES
        /\ TEXT_DOCUMENT_SYNC_OPTIONS' = r.TEXT_DOCUMENT_SYNC_OPTIONS
        /\ last' = r.log
        /\ UNCHANGED <<notifier, transport, server, stdio_pid, language, stdio,
                       initialized, ready_to_close, request_seq, req_status,
                       req_reply, server_unresponsive, transport_unresponsive,
                       context, outq, stdio_alive, hist>>

(***************************************************************************)
(* Specifications.  Each one is the client in one environment; the          *)
(* operators above are the same in all of them.                             *)
(***************************************************************************)
\* the correlator: requests of the plugin, their responses, and the
\* requests and notifications of the server, while the processes live and
\* the channel takes every message at once
CorrelatorMsgs ==
    {ErrorMsg(i, tb) : i \in Ids, tb \in BOOLEAN}
    \cup {ResultMsg(i, r) : i \in Ids, r \in {P_NULL, P_EMPTY}}
    \cup {NotificationMsg(m, P_EMPTY) : m \in {INTERNAL, UNREGISTERED}}
    \cup {RequestMsg(i, m, P_EMPTY) : i \in Ids, m \in {WORKSPACE_CONFIGURATION, UNREGISTERED}}

OnCorrelatorMsg == Receive(CorrelatorMsgs)

Next ==
    \/ Start
    \/ PerformRequest
    \/ OnCorrelatorMsg

Spec == InitTcp /\ [][Next]_vars

\* the handshakes: server_ready, initialize and its response, shutdown and
\* its acknowledgment, exit, on a channel that may be full.  The server
\* sends server_ready and result responses (also repeated ones, and ones
\* under ids that are not pending); it sends no message whose own method is
\* a client-to-server method such as initialize.
HandshakeMsgs ==
    {NotificationMsg(SERVER_READY, p) : p \in {P_PID, P_EMPTY}}
    \cup {ResultMsg(i, r) : i \in Ids, r \in {P_NULL, P_EMPTY, P_CAPS(PyInt(2)), P_CAPS_NOSYNC}}

OnHandshakeMsg == Receive(HandshakeMsgs)

NextHandshake ==
    \/ Start
    \/ Shutdown
    \/ Exit
    \/ OnHandshakeMsg
    \/ ChannelFillsOrDrains

SpecHandshake == InitPythonTcp /\ [][NextHandshake]_vars

\* the supervised processes: they start, die, are polled and are stopped
\* while the plugin sends requests
OnServerReady == Receive({NotificationMsg(SERVER_READY, P_PID)})

NextLive ==
    \/ Start
    \/ Stop
    \/ PollIsDown
    \/ PerformCompletion
    \/ OnServerReady
    \/ ProcessError
    \/ ProcessChanges
    \/ StdioDies

SpecLive == InitPython /\ [][NextLive]_vars

\* the outbound channel: it blocks for a while or for good while the plugin
\* sends requests and notifications
NextSend ==
    \/ Start
    \/ PerformRequest
    \/ Shutdown
    \/ Exit
    \/ ChannelChanges

SpecSend == InitPythonTcp /\ [][NextSend]_vars

\* two sessions of one process: each handles its initialize responses
OnInitializeResult == Receive({ResultMsg(i, r) : i \in Ids, r \in CapsPayloads})

NextSessions ==
    \/ Start
    \/ OnServerReady
    \/ OnInitializeResult
    \/ PeerProcessServerCapabilities

SpecSessions == Init /\ [][NextSessions]_vars

\* the capability merge: initialize responses of every payload, after one or
\* more server_ready notifications, on a channel that may be full
NextCaps ==
    \/ Start
    \/ OnServerReady
    \/ OnInitializeResult
    \/ ChannelFillsOrDrains

SpecCaps == InitTcp /\ [][NextCaps]_vars

(***************************************************************************)
(* Properties.                                                             *)
(***************************************************************************)
\* the ids the successful sends of the last operation returned, behind the
\* id the last successful send before it returned
ReturnedIds == <<last.before_id>> \o last.rets

\* C1: the ids returned by successful send calls increase by exactly one
\* from each successful send to the next, whatever inbound messages are
\* processed in between; so no id is returned twice.
C1_IdsIncreaseByOne ==
    \A i \in 1..(Len(ReturnedIds) - 1) :
        ReturnedIds[i] # NoId => ReturnedIds[i + 1] = ReturnedIds[i] + 1

\* C2: a pending request is resolved at most once: no callback or handler
\* is invoked for an id whose request was resolved before.
C2_ResolvedAtMostOnce ==
    \A i \in 1..Len(last.calls) : ~last.calls[i].again

\* C3: an error response whose id has a callback in req_reply gets that
\* callback invoked, for any language and debug level.
C3_ErrorInvokesCallback ==
    [][(/\ last'.op = "on_msg_received"
        /\ last'.branch = "error"
        /\ last'.resp_id # NoId
        /\ last'.resp_id \in req_reply)
       => \E i \in 1..Len(last'.calls) :
              /\ last'.calls[i].fn = "req_reply"
              /\ last'.calls[i].id = last'.resp_id]_vars

\* C4: a response (result or error) whose id is above every id a send of
\* this session has used does not raise, leaves req_status and req_reply
\* as they are, and emits no signal.
C4_UnknownResponseIsSilent ==
    [][(/\ last'.op = "on_msg_received"
        /\ last'.branch \in {"error", "result"}
        /\ last'.resp_id # NoId
        /\ last'.resp_id > hist.high)
       => (/\ ~last'.raised
           /\ req_status' = req_status
           /\ req_reply' = req_reply
           /\ last'.sigs = <<>>)]_vars

\* C5: sig_went_down is emitted at most once for the death of the
\* transport, of the local server and of the stdio server, whether is_down
\* or handle_process_errors reports it.
C5_WentDownOncePerCategory ==
    \A c \in {"transport", "server", "stdio"} : hist.went_down[c] <= 1

\* C6: an exit notification goes out only when ready_to_close is set.
C6_ExitOnlyWhenReadyToClose ==
    (\E i \in 1..Len(last.wire) : last.wire[i].method = EXIT) => ready_to_close

C8_InitializeSignalOnce == hist.n_initialize <= 1

\* the number of attempts of a send that never succeeds: one at 0 ms, one
\* after each sleep until the clock is past the budget
AttemptsAgainstFull == TimeoutMs \div SleepMs + 2

\* C9: a send that reaches a channel that always reports would-block ends:
\* it makes a bounded number of attempts SleepMs apart, gives up when the
\* budget is exceeded, emits sig_went_down, returns no id, puts nothing on
\* the wire and leaves request_seq as it was.
C9_SendGivesUp ==
    [][(outq = FULL /\ last'.attempts > 0)
       => (/\ last'.attempts = AttemptsAgainstFull
           /\ last'.elapsed = (last'.attempts - 1) * SleepMs
           /\ last'.elapsed > TimeoutMs
           /\ last'.elapsed <= TimeoutMs + SleepMs
           /\ last'.sigs = <<"sig_went_down">>
           /\ last'.ret = NoId
           /\ last'.rets = <<>>
           /\ last'.wire = <<>>
           /\ request_seq' = request_seq
           /\ outq' = FULL)]_vars

\* a request was abandoned against the full channel
C9_Witness ==
    /\ last.op = "perform_request"
    /\ outq = FULL
    /\ last.attempts = AttemptsAgainstFull
    /\ last.ret = NoId
    /\ hist.went_down["send"] >= 1

\* C10: when another session of the process handles its initialize
\* response, the capability set and the sync options this session reads
\* stay as they were.
C10_PeerLeavesCapabilities ==
    [][last'.op = "peer.process_server_capabilities"
       => (/\ SERVER_CAPABILITES' = SERVER_CAPABILITES
           /\ TEXT_DOCUMENT_SYNC_OPTIONS' = TEXT_DOCUMENT_SYNC_OPTIONS)]_vars

\* the routing of responses: completion and shutdown requests, their result
\* responses, and messages of the server under a method no registry holds
RoutingMsgs ==
    {ResultMsg(i, P_EMPTY) : i \in Ids}
    \cup {RequestMsg(i, UNREGISTERED, P_EMPTY) : i \in Ids}
    \cup {NotificationMsg(UNREGISTERED, P_EMPTY)}

OnRoutingMsg == Receive(RoutingMsgs)

NextRouting ==
    \/ Start
    \/ PerformCompletion
    \/ Shutdown
    \/ OnRoutingMsg

SpecRouting == InitAuditPythonTcp /\ [][NextRouting]_vars

\* the outbound channel again, with the transmitted requests kept in
\* hist.sent
SpecSendAudit == InitAuditPythonTcp /\ [][NextSend]_vars

\* what a session reads as its server capabilities: the dict and the sync
\* options object the dict refers to
CapabilityView(s) ==
    [caps |-> s.SERVER_CAPABILITES, options |-> s.TEXT_DOCUMENT_SYNC_OPTIONS]

\* process_server_capabilities on object s as a call of its own
ApplyCapabilities(s, payload) ==
    process_server_capabilities([s EXCEPT !.log = NoLog], payload)

\* the payload dict as a call of process_server_capabilities leaves it (the
\* handler rewrites the dict it is handed)
Rewritten(s, payload) ==
    [payload EXCEPT !.capabilities = NormalizeSync(s, payload.capabilities).caps]

\* C11: handing a started session the same initialize payload a second time
\* (an equal dict, or the very dict the first call rewrote) leaves the
\* capability set as the first call left it, and an integer
\* textDocumentSync k ends as the options object with change = k.
C11_MergeIsIdempotent ==
    /\ Started =>
          \A p \in CapsPayloads \cup {P_CAPS(PyDict(1))} :
              LET once == ApplyCapabilities(Self, p)
                  again == ApplyCapabilities(once, p)
                  inplace == ApplyCapabilities(once, Rewritten(Self, p))
                  sync == p.capabilities.textDocumentSync
              IN  /\ CapabilityView(again) = CapabilityView(once)
                  /\ CapabilityView(inplace) = CapabilityView(once)
                  /\ ("textDocumentSync" \in p.capabilities.has /\ sync.t = "int")
                        => /\ once.TEXT_DOCUMENT_SYNC_OPTIONS.change = sync.v
                           /\ once.SERVER_CAPABILITES.textDocumentSync = PyRef
                           /\ "textDocumentSync" \in once.SERVER_CAPABILITES.has
    /\ (last.merged /\ last.sync_in.t = "int")
          => /\ TEXT_DOCUMENT_SYNC_OPTIONS.change = last.sync_in.v
             /\ SERVER_CAPABILITES.textDocumentSync = PyRef

\* the session merged the sync mode 2 a second time
C11_Witness ==
    /\ last.op = "on_msg_received"
    /\ last.merged
    /\ last.sync_in = PyInt(2)
    /\ last.change_before = 2
    /\ hist.n_initialize = 2
    /\ TEXT_DOCUMENT_SYNC_OPTIONS.change = 2

\* C12: once on_msg_received has processed a response (error or result)
\* for an id with an entry in req_status, that id is in neither req_status
\* nor req_reply.
C12_ResponseRemovesPending ==
    [][(/\ last'.op = "on_msg_received"
        /\ last'.resp_id # NoId
        /\ req_status[last'.resp_id] # NoMethod)
       => (/\ req_status'[last'.resp_id] = NoMethod
           /\ last'.resp_id \notin req_reply')]_vars

\* the steps of stop, in the order the code takes them
StopOrder == <<"notifier", "transport", "context", "server">>

\* the steps of seq are steps of StopOrder, in its order, none twice
InStopOrder(seq) ==
    \E pos \in [1..Len(seq) -> 1..Len(StopOrder)] :
        /\ \A i \in 1..Len(seq) : seq[i] = StopOrder[pos[i]]
        /\ \A i \in 1..(Len(seq) - 1) : pos[i] < pos[i + 1]

\* C13: stop takes its steps in the order notifier, transport, context,
\* server, leaving out only the steps of objects that were never created;
\* once stop has run the notifier is gone and no inbound message is
\* processed any more.
C13_StopOrderAndSilence ==
    /\ last.op = "stop" =>
          /\ InStopOrder(last.order)
          /\ \E i \in 1..Len(last.order) : last.order[i] = "context"
          /\ (transport # "none") <=> (\E i \in 1..Len(last.order) : last.order[i] = "transport")
          /\ (server # "none") <=> (\E i \in 1..Len(last.order) : last.order[i] = "server")
    /\ context = "destroyed" =>
          /\ notifier = "none"
          /\ last.op # "on_msg_received"

\* a started session with a local server was stopped: all four steps ran
C13_Witness ==
    /\ last.op = "stop"
    /\ last.order = StopOrder
    /\ notifier = "none"

\* the fields of the object, without the log of the operation
Fields(s) == [s EXCEPT !.log = NoLog]

\* C14: stop raises in no reachable state (never started, started, handshake
\* under way or done, processes dead, stopped before), and a second stop
\* right after a stop leaves every field as the first one left it.
C14_StopIsSafeAndIdempotent ==
    LET once == stop(Begin("stop"))
        twice == stop([once EXCEPT !.log = Begin("stop").log])
    IN  /\ ~once.log.raised
        /\ ~twice.log.raised
        /\ Fields(twice) = Fields(once)
        /\ last.op = "stop" => ~last.raised

\* stop ran on a session that an earlier stop had torn down: the notifier
\* was gone, the processes were still there to kill
C14_Witness ==
    /\ last.op = "stop"
    /\ last.order = <<"transport", "context", "server">>
    /\ ~last.raised

Kinds == {REQUEST, RESPONSE, NOTIFICATION}

\* C15: in a state where is_down answers true, send of any kind puts nothing
\* on the wire, returns no id, does not raise and leaves request_seq,
\* req_status, req_reply and the channel as they are.
C15_SendIsNoOpWhenDown ==
    /\ is_down(Begin("is_down")).log.down =>
          \A kind \in Kinds, method \in {SHUTDOWN, DOCUMENT_COMPLETION} :
              LET r == send(Begin("send"), method, {}, kind)
              IN  /\ r.log.wire = <<>>
                  /\ r.log.ret = NoId
                  /\ r.log.rets = <<>>
                  /\ r.log.attempts = 0
                  /\ ~r.log.raised
                  /\ r.request_seq = request_seq
                  /\ r.req_status = req_status
                  /\ r.req_reply = req_reply
                  /\ r.outq = outq
    /\ last.drop = "down" =>
          /\ last.wire = <<>>
          /\ last.rets = <<>>
          /\ last.ret = NoId

\* a request of the plugin met a dead process and was not sent
C15_Witness ==
    /\ last.op = "perform_request"
    /\ last.drop = "down"
    /\ last.down
    /\ last.ret = NoId

\* C16: a send whose params hold the cancel sentinel, of any kind and in any
\* state, puts nothing on the wire, returns no id, adds nothing to
\* req_status, leaves request_seq as it is and emits no signal other than
\* what the liveness check before it emits.
C16_CancelledSendIsDropped ==
    /\ \A kind \in Kinds, method \in {SHUTDOWN, DOCUMENT_COMPLETION} :
          LET d == is_down(Begin("send"))
              r == send(Begin("send"), method, {"CANCEL"}, kind)
          IN  /\ r.log.wire = <<>>
              /\ r.log.ret = NoId
              /\ r.log.rets = <<>>
              /\ r.log.attempts = 0
              /\ ~r.log.raised
              /\ r.log.sigs = d.log.sigs
              /\ r.hist = d.hist
              /\ r.request_seq = request_seq
              /\ r.req_status = req_status
              /\ r.outq = outq
    /\ last.drop = "cancel" =>
          /\ last.wire = <<>>
          /\ last.sigs = <<>>
          /\ last.ret = NoId

\* a request of the plugin was cancelled by its sender and dropped
C16_Witness ==
    /\ last.op = "perform_request"
    /\ last.drop = "cancel"
    /\ last.ret = NoId
    /\ last.attempts = 0

\* C17: the handler on_msg_received invokes for a result response under id
\* n is the handler registered for the method of the request that went out
\* under id n (the first one still pending, should the id have gone out
\* more than once).
C17_HandlerOfTransmittedMethod ==
    [][(last'.op = "on_msg_received" /\ last'.branch = "result")
       => \A i \in 1..Len(last'.calls) :
              LET c == last'.calls[i] IN
              c.id # NoId =>
                  /\ hist.sent[c.id] # NoMethod
                  /\ handler_registry[hist.sent[c.id]] = c.fn]_vars

\* C19: a message of the server whose method no registry holds invokes no
\* handler, emits no signal and leaves request_seq, req_status, req_reply,
\* initialized and ready_to_close as they are, with or without an id.
C19_UnregisteredMethodIsIgnored ==
    [][(/\ last'.op = "on_msg_received"
        /\ last'.branch = "method"
        /\ last'.method \notin DOMAIN handler_registry)
       => (/\ last'.calls = <<>>
           /\ last'.sigs = <<>>
           /\ ~last'.raised
           /\ request_seq' = request_seq
           /\ req_status' = req_status
           /\ req_reply' = req_reply
           /\ initialized' = initialized
           /\ ready_to_close' = ready_to_close)]_vars

\* C18: every call of on_msg_received ends with the notifier enabled again,
\* also when a handler fails or a field of the message is missing.
C18_NotifierReenabled ==
    last.op = "on_msg_received" => notifier = "enabled"

\* C20: every id with an entry in req_status is the id of a request that a
\* successful send transmitted and returned, under the method of the entry;
\* an abandoned send leaves no entry.
C20_PendingWasTransmitted ==
    \A n \in Ids : req_status[n] # NoMethod => hist.sent[n] = req_status[n]

\* C21: the initialized flag becomes true only in a step that has merged
\* the capability payload of the initialize response, emitted
\* sig_initialize and transmitted the initialized notification; a failure
\* while the response is processed never leaves the flag set without them.
C21_InitializedOnlyWithEffects ==
    [][(initialized' /\ ~initialized)
       => (/\ last'.merged
           /\ \E i \in 1..Len(last'.sigs) : last'.sigs[i] = "sig_initialize"
           /\ \E i \in 1..Len(last'.wire) :
                  last'.wire[i].method = INITIALIZED)]_vars

\* C22: every key of the callback table req_reply is an id that a
\* transmitted message carried and send returned; a send that is dropped,
\* refused because the client is down, or abandoned registers no callback.
C22_CallbackKeysWereTransmitted ==
    \A k \in req_reply : k \in Ids /\ k < request_seq
=============================================================================
